---- MODULE Spec2Model ----
(***************************************************************************)
(* srslte::byte_buffer_t and srslte::buffer_latency_calc                   *)
(* (lib/include/srslte/common/byte_buffer.h) as a state machine.           *)
(*                                                                         *)
(* The model follows one byte_buffer_t object, b.  A pointer into the      *)
(* backing store is its offset from buffer[0]; the backing store is a      *)
(* function 0..capacity-1 -> Byte.  An operation that builds a new object  *)
(* (a constructor, a copy) or that has a second object as its destination  *)
(* (an assignment from b) hands b over to that object; its backing store   *)
(* before the operation is an input, because no constructor initialises    *)
(* buffer[].                                                               *)
(*                                                                         *)
(* A memcpy or std::fill that leaves buffer[] writes into the members      *)
(* declared around it (N_bytes before, msg and md after) and into the      *)
(* memory outside the object: every value of those members is a possible   *)
(* outcome, msg being then any pointer, inside buffer[] or not, so the     *)
(* operations are set-valued and an action picks one outcome.  A read      *)
(* outside buffer[] yields any byte.  The program runs on after such an    *)
(* access, and so does the model; a build in which the process dies on it  *)
(* is the behaviour that stops there.                                      *)
(*                                                                         *)
(* bits is one bit_buffer_t object, followed the same way: the             *)
(* specifications of the byte buffer leave it alone, SpecBit runs its      *)
(* operations.                                                             *)
(***************************************************************************)
EXTENDS Integers, Sequences, FiniteSets, TLC

\* Sizes of the model.  The three macros come from common.h (12756, 1020 and
\* 102048 there); the model keeps their roles at a size TLC can enumerate, and
\* uint32_t is an unsigned integer of WordBits bits, a pointer difference
\* (msg - buffer) a signed integer of PtrBits bits.  As in the code, a
\* uint32_t holds the length of every region that starts at a pointer and
\* ends inside buffer[] (2^WordBits > capacity + 2^(PtrBits-1)), so N_bytes
\* does not wrap on a write that lands in buffer[].  A time_point and the
\* duration between two of them count nanoseconds in a signed integer of
\* TimeBits bits (int64_t in the code), a microsecond is NsPerUs nanoseconds
\* (1000 in the code), and the clock reads 0 .. MaxClock.
SRSLTE_MAX_BUFFER_SIZE_BYTES == 3
SRSLTE_MAX_BUFFER_SIZE_BITS == 3
SRSLTE_BUFFER_HEADER_OFFSET == 2
WordBits == 3
PtrBits == 3
MaxClock == 1
TimeBits == 3
NsPerUs == 2
MaxAppend == 1

Byte == {0, 1}
PdcpSn == {0, 1}
UInt32 == 0 .. (2 ^ WordBits - 1)
ToUInt32(n) == n % (2 ^ WordBits)
PtrDiff == (0 - 2 ^ (PtrBits - 1)) .. (2 ^ (PtrBits - 1) - 1)
TimePoint == (0 - 2 ^ (TimeBits - 1)) .. (2 ^ (TimeBits - 1) - 1)
Index == 0 .. (SRSLTE_MAX_BUFFER_SIZE_BYTES - 1)
Store == [Index -> Byte]
ByteSeq(n) == [1 .. n -> Byte]
Input == UNION {ByteSeq(n) : n \in 0 .. MaxAppend}
Header == UNION {ByteSeq(n) : n \in 1 .. SRSLTE_BUFFER_HEADER_OFFSET}
BitIndex == 0 .. (SRSLTE_MAX_BUFFER_SIZE_BITS - 1)
BitStore == [BitIndex -> Byte]

VARIABLES b, bits, now, last

vars == <<b, bits, now, last>>

----------------------------------------------------------------------------
\* buffer_latency_calc

buffer_latency_calc == [tp |-> 0, timestamp_is_set |-> FALSE]

\* The time point of a tracker that a write outside buffer[] has reached
\* is not a time point the program has stored: Indeterminate stands for
\* every value of TimePoint at once, and a read of it is a read of any of
\* them.
Indeterminate == 2 ^ (TimeBits - 1)

TimePoints(t) == IF t.tp = Indeterminate THEN TimePoint ELSE {t.tp}

LatencyCalc == [tp : TimePoint \cup {Indeterminate}, timestamp_is_set : BOOLEAN]

\* clear() that leaves the flag as it is.
latency_clear_keeps_flag(t) == t

latency_clear(t) == [t EXCEPT !.timestamp_is_set = FALSE]

\* The difference of two time points is a signed subtraction of their
\* nanosecond counts.  A difference that leaves the range of the integer is
\* undefined in the language; the builds of the repository, optimised or
\* not, return it wrapped into the range, and a build that traps on it ends
\* the behaviour before the read returns.
ToInt64(n) == ((n + 2 ^ (TimeBits - 1)) % (2 ^ TimeBits)) - 2 ^ (TimeBits - 1)

\* duration_cast<microseconds> of a nanosecond count: the quotient by the
\* nanoseconds of a microsecond, rounded towards zero.
duration_cast(d) == IF d >= 0 THEN d \div NsPerUs ELSE 0 - ((0 - d) \div NsPerUs)

\* The values get_latency_us() can return when the clock reads `clock`: one
\* value, unless the time point is indeterminate.
get_latency_us(t, clock) ==
  IF ~t.timestamp_is_set
  THEN {0}
  ELSE {duration_cast(ToInt64(clock - tp)) : tp \in TimePoints(t)}

get_timestamp(t) == t.tp

set_timestamp_now(t, clock) == [tp |-> clock, timestamp_is_set |-> TRUE]

set_timestamp(t, tp_) == [tp |-> tp_, timestamp_is_set |-> TRUE]

----------------------------------------------------------------------------
\* byte_buffer_t

buffer_metadata_t == [pdcp_sn |-> 0, tp |-> buffer_latency_calc]

Metadata == [pdcp_sn : PdcpSn, tp : LatencyCalc]

\* The metadata a write over md can leave: any sequence tag, any flag, and a
\* time point that is indeterminate.
Overwritten == {d \in Metadata : d.tp.tp = Indeterminate}

\* A write of n bytes at buffer[at] reaches the memory before buffer[0], or
\* after the last byte of a buffer[] of cap bytes; a write of no byte reaches
\* nothing.
WritesBefore(at, n) == n > 0 /\ at < 0
WritesAfter(at, n, cap) == n > 0 /\ at + n > cap

\* A write that leaves buffer[] lands in the members declared around it and
\* in the memory outside the object.  Before buffer[] is N_bytes; after it
\* are msg and md, a few bytes where the default margin is a thousand.  What
\* the write has reached holds any value afterwards, msg any pointer, the
\* tracker of md any time point.
Clobber(r, before, after) ==
  {[r EXCEPT !.N_bytes = n, !.msg = m, !.md = d] :
     n \in (IF before THEN UInt32 ELSE {r.N_bytes}),
     m \in (IF after THEN PtrDiff ELSE {r.msg}),
     d \in (IF after THEN Overwritten ELSE {r.md})}

\* memcpy(&buffer[at], buf.msg, n) into the object r.  A byte read outside
\* buf's buffer[] is any byte; the bytes that land outside r's buffer[] are
\* in what Clobber yields.
Memcpy(r, at, buf, n) ==
  LET seen == {v \in Store :
                 \A i \in Index :
                   (at <= i /\ i < at + n /\ buf.msg + i - at \in Index)
                     => v[i] = buf.buffer[buf.msg + i - at]}
      stores == {[i \in Index |-> IF at <= i /\ i < at + n THEN v[i] ELSE r.buffer[i]] :
                   v \in seen}
  IN  UNION {Clobber([r EXCEPT !.buffer = st], WritesBefore(at, n),
                     WritesAfter(at, n, SRSLTE_MAX_BUFFER_SIZE_BYTES)) : st \in stores}

\* memcpy(dst, s, n) / std::fill of the bytes s, dst = &buffer[at].
Write(r, at, s) ==
  LET w == [r EXCEPT !.buffer =
              [i \in Index |-> IF at <= i /\ i < at + Len(s)
                               THEN s[i - at + 1] ELSE r.buffer[i]]]
      before == WritesBefore(at, Len(s))
      after == WritesAfter(at, Len(s), SRSLTE_MAX_BUFFER_SIZE_BYTES)
  IN  IF before \/ after THEN Clobber(w, before, after) ELSE {w}

\* The n bytes that a reader finds at buf.msg: a byte outside buffer[] is any
\* byte.
Read(buf, n) ==
  LET outside == {k \in 1 .. n : buf.msg + k - 1 \notin Index}
  IN  {[k \in 1 .. n |-> IF k \in outside THEN any[k] ELSE buf.buffer[buf.msg + k - 1]] :
         any \in [outside -> Byte]}

byte_buffer_t_default(g) ==
  [N_bytes |-> 0, buffer |-> g, msg |-> SRSLTE_BUFFER_HEADER_OFFSET,
   md |-> buffer_metadata_t]

\* The size constructor without its N_bytes(size) initialiser.
byte_buffer_t_size_no_length(g, size) == byte_buffer_t_default(g)

byte_buffer_t_size(g, size) ==
  [N_bytes |-> size, buffer |-> g, msg |-> SRSLTE_BUFFER_HEADER_OFFSET,
   md |-> buffer_metadata_t]

byte_buffer_t_fill(g, size, val) ==
  LET r == byte_buffer_t_size(g, size)
  IN  Write(r, r.msg, [k \in 1 .. r.N_bytes |-> val])

byte_buffer_t_copy(g, buf) ==
  LET r == [N_bytes |-> buf.N_bytes, buffer |-> g,
            msg |-> SRSLTE_BUFFER_HEADER_OFFSET, md |-> buf.md]
  IN  Memcpy(r, r.msg, buf, r.N_bytes)

\* operator= without the self-assignment check of lines 117-119.
operator_assign_unchecked(this, buf, same) ==
  LET r == [this EXCEPT !.msg = SRSLTE_BUFFER_HEADER_OFFSET,
                        !.N_bytes = buf.N_bytes, !.md = buf.md]
  IN  Memcpy(r, r.msg, buf, r.N_bytes)

\* same: &buf == this
operator_assign(this, buf, same) ==
  IF same THEN {this}
  ELSE LET r == [this EXCEPT !.msg = SRSLTE_BUFFER_HEADER_OFFSET,
                             !.N_bytes = buf.N_bytes, !.md = buf.md]
       IN  Memcpy(r, r.msg, buf, r.N_bytes)

\* clear() without line 130: N_bytes stays what it was.
clear_keeps_length(this) ==
  [this EXCEPT !.msg = SRSLTE_BUFFER_HEADER_OFFSET, !.md = buffer_metadata_t]

\* clear() without line 131: the metadata survive.
clear_keeps_md(this) ==
  [this EXCEPT !.msg = SRSLTE_BUFFER_HEADER_OFFSET, !.N_bytes = 0]

\* clear() that also zeroes the backing store.
clear_zeroes_store(this) ==
  [this EXCEPT !.msg = SRSLTE_BUFFER_HEADER_OFFSET, !.N_bytes = 0,
               !.md = buffer_metadata_t, !.buffer = [i \in Index |-> 0]]

clear(this) ==
  [this EXCEPT !.msg = SRSLTE_BUFFER_HEADER_OFFSET, !.N_bytes = 0,
               !.md = buffer_metadata_t]

get_headroom(this) == ToUInt32(this.msg)

\* get_tailroom() that leaves N_bytes out: the room after msg.
get_tailroom_ignores_length(this) ==
  ToUInt32(SRSLTE_MAX_BUFFER_SIZE_BYTES - this.msg)

get_tailroom(this) ==
  ToUInt32(SRSLTE_MAX_BUFFER_SIZE_BYTES - this.msg - this.N_bytes)

\* append_bytes() that sets N_bytes to size where the code adds size to it.
append_bytes_sets_length(this, buf) ==
  {[w EXCEPT !.N_bytes = ToUInt32(Len(buf))] :
     w \in Write(this, this.msg + this.N_bytes, buf)}

append_bytes(this, buf) ==
  {[w EXCEPT !.N_bytes = ToUInt32(w.N_bytes + Len(buf))] :
     w \in Write(this, this.msg + this.N_bytes, buf)}

\* The byte sequences a view of this buffer can show: a position outside
\* buffer[] shows the byte that the memory holds there, any byte.
make_span(this) == Read(this, this.N_bytes)

\* The view byte_span{b.msg, b.N_bytes}: where it starts and how long it is.
\* The four overloads differ in constness and in taking the buffer through a
\* unique_byte_buffer_t handle.
make_span_mutable(this) == [data |-> this.msg, size |-> this.N_bytes]

make_span_const(this) == [data |-> this.msg, size |-> this.N_bytes]

\* A view that starts at buffer instead of at msg.
make_span_from_buffer(this) == [data |-> 0, size |-> this.N_bytes]

make_span_unique(this) == [data |-> this.msg, size |-> this.N_bytes]

make_span_const_unique(this) == [data |-> this.msg, size |-> this.N_bytes]

SpanOverload == {"byte_buffer_t&", "const byte_buffer_t&",
                 "unique_byte_buffer_t&", "const unique_byte_buffer_t&"}

make_span_of(overload, this) ==
  CASE overload = "byte_buffer_t&" -> make_span_mutable(this)
    [] overload = "const byte_buffer_t&" -> make_span_const(this)
    [] overload = "unique_byte_buffer_t&" -> make_span_unique(this)
    [] overload = "const unique_byte_buffer_t&" -> make_span_const_unique(this)

\* The caller's in-place header: msg -= h; N_bytes += h; memcpy(msg, tag, h).
prepend_header(this, tag) ==
  Write([this EXCEPT !.msg = this.msg - Len(tag),
                     !.N_bytes = ToUInt32(this.N_bytes + Len(tag))],
        this.msg - Len(tag), tag)

----------------------------------------------------------------------------
\* bit_buffer_t: one bit in each element of buffer[].  N_bits is declared
\* before buffer[] and msg after it.

BitClobber(r, before, after) ==
  {[r EXCEPT !.N_bits = n, !.msg = m] :
     n \in (IF before THEN UInt32 ELSE {r.N_bits}),
     m \in (IF after THEN PtrDiff ELSE {r.msg})}

BitWrite(r, at, s) ==
  LET w == [r EXCEPT !.buffer =
              [i \in BitIndex |-> IF at <= i /\ i < at + Len(s)
                                  THEN s[i - at + 1] ELSE r.buffer[i]]]
      before == WritesBefore(at, Len(s))
      after == WritesAfter(at, Len(s), SRSLTE_MAX_BUFFER_SIZE_BITS)
  IN  IF before \/ after THEN BitClobber(w, before, after) ELSE {w}

BitMemcpy(r, at, buf, n) ==
  LET seen == {v \in BitStore :
                 \A i \in BitIndex :
                   (at <= i /\ i < at + n /\ buf.msg + i - at \in BitIndex)
                     => v[i] = buf.buffer[buf.msg + i - at]}
      stores == {[i \in BitIndex |-> IF at <= i /\ i < at + n THEN v[i] ELSE r.buffer[i]] :
                   v \in seen}
  IN  UNION {BitClobber([r EXCEPT !.buffer = st], WritesBefore(at, n),
                        WritesAfter(at, n, SRSLTE_MAX_BUFFER_SIZE_BITS)) : st \in stores}

bit_buffer_t_default(g) ==
  [N_bits |-> 0, buffer |-> g, msg |-> SRSLTE_BUFFER_HEADER_OFFSET]

bit_buffer_t_copy(g, buf) ==
  LET r == [N_bits |-> buf.N_bits, buffer |-> g,
            msg |-> SRSLTE_BUFFER_HEADER_OFFSET]
  IN  BitMemcpy(r, r.msg, buf, r.N_bits)

\* same: &buf == this
bit_operator_assign(this, buf, same) ==
  IF same THEN {this}
  ELSE LET r == [this EXCEPT !.msg = SRSLTE_BUFFER_HEADER_OFFSET,
                             !.N_bits = buf.N_bits]
       IN  BitMemcpy(r, r.msg, buf, r.N_bits)

bit_clear(this) ==
  [this EXCEPT !.msg = SRSLTE_BUFFER_HEADER_OFFSET, !.N_bits = 0]

bit_get_headroom(this) == ToUInt32(this.msg)

\* The caller's in-place header: msg -= h; N_bits += h; memcpy(msg, tag, h).
bit_prepend_header(this, tag) ==
  BitWrite([this EXCEPT !.msg = this.msg - Len(tag),
                        !.N_bits = ToUInt32(this.N_bits + Len(tag))],
           this.msg - Len(tag), tag)

\* The bit buffer of the specifications that follow the byte buffer only.
IdleBits == bit_buffer_t_default([i \in BitIndex |-> 0])

----------------------------------------------------------------------------

\* last: the operation that ran last and the size it was given; cleared says
\* that the operation before it was clear(); fresh, that the operation before
\* it was the default constructor; inside, for append_bytes, that the bytes
\* went into buffer[]; ret is the view a make_span returned; appended is, for
\* an in-place header, the number of bytes that the operation before it
\* appended to a default-constructed buffer (-1: it was no such
\* append_bytes).
NoSpan == [data |-> 0, size |-> 0]

Op(name, size) ==
  [op |-> name, size |-> size, cleared |-> last.op = "clear",
   fresh |-> last.op = "byte_buffer_t", inside |-> FALSE, ret |-> NoSpan,
   appended |-> -1]

\* The first operation on an object: the constructor that built it.
Built(name, size) ==
  [op |-> name, size |-> size, cleared |-> FALSE, fresh |-> FALSE,
   inside |-> FALSE, ret |-> NoSpan, appended |-> -1]

\* The object the model starts with is built by one of the three constructors
\* that take no other buffer.
Construct(g) ==
  /\ b = byte_buffer_t_default(g)
  /\ last = Built("byte_buffer_t", 0)

ConstructSize(g, size) ==
  /\ b = byte_buffer_t_size(g, size)
  /\ last = Built("byte_buffer_t(size)", size)

ConstructFill(g, size, val) ==
  /\ b \in byte_buffer_t_fill(g, size, val)
  /\ last = Built("byte_buffer_t(size,val)", size)

\* Any caller: every size a uint32_t holds.  The clock reads 0 when the
\* object is built.
Init ==
  /\ now = 0
  /\ bits = IdleBits
  /\ \/ \E g \in Store : Construct(g)
     \/ \E g \in Store, size \in UInt32 : ConstructSize(g, size)
     \/ \E g \in Store, size \in UInt32, val \in Byte : ConstructFill(g, size, val)

\* A caller that sizes its requests: the size leaves the default margin free.
InitChecked ==
  /\ now = 0
  /\ bits = IdleBits
  /\ \/ \E g \in Store : Construct(g)
     \/ \E g \in Store, size \in 0 .. (SRSLTE_MAX_BUFFER_SIZE_BYTES - SRSLTE_BUFFER_HEADER_OFFSET) :
          ConstructSize(g, size) \/ \E val \in Byte : ConstructFill(g, size, val)

CopyConstruct(g) ==
  /\ b' \in byte_buffer_t_copy(g, b)
  /\ last' = Built("byte_buffer_t(buf)", 0)
  /\ UNCHANGED <<now, bits>>

\* dst = b for a second object dst.  operator= overwrites dst's msg, N_bytes
\* and md before it reads them, so dst's backing store is all of its prior
\* state that the result depends on.
Assign(g) ==
  /\ b' \in operator_assign(byte_buffer_t_default(g), b, FALSE)
  /\ last' = Built("operator=", 0)
  /\ UNCHANGED <<now, bits>>

SelfAssign ==
  /\ b' \in operator_assign(b, b, TRUE)
  /\ last' = Op("operator=(self)", 0)
  /\ UNCHANGED <<now, bits>>

Clear ==
  /\ b' = clear(b)
  /\ last' = Op("clear", 0)
  /\ UNCHANGED <<now, bits>>

AppendBytes(buf) ==
  /\ b' \in append_bytes(b, buf)
  /\ last' = [Op("append_bytes", Len(buf)) EXCEPT
                !.inside = /\ b.msg + b.N_bytes >= 0
                           /\ b.msg + b.N_bytes + Len(buf) <= SRSLTE_MAX_BUFFER_SIZE_BYTES]
  /\ UNCHANGED <<now, bits>>

\* The caller's in-place header of Len(tag) <= get_headroom() bytes.  msg
\* stays a pointer difference of PtrBits bits: the model does not follow msg
\* below the lowest of them.
PrependHeader(tag) ==
  /\ Len(tag) <= get_headroom(b)
  /\ b.msg - Len(tag) \in PtrDiff
  /\ b' \in prepend_header(b, tag)
  /\ last' = [Op("prepend", Len(tag)) EXCEPT
                !.appended = IF last.op = "append_bytes" /\ last.fresh
                             THEN last.size ELSE -1]
  /\ UNCHANGED <<now, bits>>

SetPdcpSn(sn) ==
  /\ b' = [b EXCEPT !.md.pdcp_sn = sn]
  /\ last' = Op("pdcp_sn", sn)
  /\ UNCHANGED <<now, bits>>

SetTimestampNow ==
  /\ b' = [b EXCEPT !.md.tp = set_timestamp_now(b.md.tp, now)]
  /\ last' = Op("set_timestamp()", 0)
  /\ UNCHANGED <<now, bits>>

SetTimestamp(tp_) ==
  /\ b' = [b EXCEPT !.md.tp = set_timestamp(b.md.tp, tp_)]
  /\ last' = Op("set_timestamp(tp)", tp_)
  /\ UNCHANGED <<now, bits>>

LatencyClear ==
  /\ b' = [b EXCEPT !.md.tp = latency_clear(b.md.tp)]
  /\ last' = Op("tp.clear", 0)
  /\ UNCHANGED <<now, bits>>

\* make_span(b): the buffer is only read.
MakeSpan(overload) ==
  /\ last' = [Op("make_span", 0) EXCEPT !.ret = make_span_of(overload, b)]
  /\ UNCHANGED <<b, now, bits>>

\* high_resolution_clock::now() advances.
Tick ==
  /\ now < MaxClock
  /\ now' = now + 1
  /\ UNCHANGED <<b, bits, last>>

\* high_resolution_clock is not required to be steady (it is system_clock in
\* libstdc++): the clock is set back and the next reading is a lower one.
ClockSetBack ==
  /\ now' \in 0 .. (now - 1)
  /\ UNCHANGED <<b, bits, last>>

\* Any caller: every argument the signatures admit, every content of the
\* destination's memory.  The operations on the metadata and the clock are
\* followed by SpecLatency, self-assignment by SpecBit.
Next ==
  \/ \E g \in Store : CopyConstruct(g)
  \/ \E g \in Store : Assign(g)
  \/ Clear
  \/ \E buf \in Input : AppendBytes(buf)
  \/ \E tag \in Header : PrependHeader(tag)
  \/ \E overload \in SpanOverload : MakeSpan(overload)

Spec == Init /\ [][Next]_vars

\* A caller that sizes its requests: append_bytes() is given no more than
\* get_tailroom().
NextChecked ==
  \/ \E g \in Store : CopyConstruct(g)
  \/ \E g \in Store : Assign(g)
  \/ Clear
  \/ \E buf \in Input : Len(buf) <= get_tailroom(b) /\ AppendBytes(buf)
  \/ \E tag \in Header : PrependHeader(tag)

SpecChecked == InitChecked /\ [][NextChecked]_vars

\* The latency tracker of a buffer under a running clock: the operations on
\* the metadata, clear(), and the caller's in-place headers, on an object
\* built by any of the constructors of Init.
NextLatency ==
  \/ Clear
  \/ \E tag \in Header : PrependHeader(tag)
  \/ \E sn \in PdcpSn : SetPdcpSn(sn)
  \/ SetTimestampNow
  \/ \E tp_ \in TimePoint : SetTimestamp(tp_)
  \/ LatencyClear
  \/ Tick
  \/ ClockSetBack

SpecLatency == Init /\ [][NextLatency]_vars

----------------------------------------------------------------------------
\* The bit buffer's operations, with the same hand-over as for the byte
\* buffer.

BitConstruct(g) == bits = bit_buffer_t_default(g)

BitCopyConstruct(g) ==
  /\ bits' \in bit_buffer_t_copy(g, bits)
  /\ last' = Built("bit_buffer_t(buf)", 0)
  /\ UNCHANGED <<b, now>>

BitAssign(g) ==
  /\ bits' \in bit_operator_assign(bit_buffer_t_default(g), bits, FALSE)
  /\ last' = Built("bit_buffer_t::operator=", 0)
  /\ UNCHANGED <<b, now>>

BitSelfAssign ==
  /\ bits' \in bit_operator_assign(bits, bits, TRUE)
  /\ last' = Op("bit_buffer_t::operator=(self)", 0)
  /\ UNCHANGED <<b, now>>

BitClear ==
  /\ bits' = bit_clear(bits)
  /\ last' = Op("bit_buffer_t::clear", 0)
  /\ UNCHANGED <<b, now>>

\* As PrependHeader, on the bit buffer.
BitPrependHeader(tag) ==
  /\ Len(tag) <= bit_get_headroom(bits)
  /\ bits.msg - Len(tag) \in PtrDiff
  /\ bits' \in bit_prepend_header(bits, tag)
  /\ last' = Op("bit_buffer_t prepend", Len(tag))
  /\ UNCHANGED <<b, now>>

\* A default-constructed byte buffer and a default-constructed bit buffer.
InitBit ==
  /\ now = 0
  /\ \E g \in Store : Construct(g)
  /\ \E g \in BitStore : BitConstruct(g)

\* The bit buffer's operations with the caller's in-place headers in between,
\* and self-assignment of either buffer after such a header.
NextBit ==
  \/ \E g \in BitStore : BitCopyConstruct(g)
  \/ \E g \in BitStore : BitAssign(g)
  \/ BitSelfAssign
  \/ BitClear
  \/ \E tag \in Header : BitPrependHeader(tag)
  \/ \E tag \in Header : PrependHeader(tag)
  \/ SelfAssign

SpecBit == InitBit /\ [][NextBit]_vars

----------------------------------------------------------------------------
\* The claims.

Margin == SRSLTE_BUFFER_HEADER_OFFSET
Capacity == SRSLTE_MAX_BUFFER_SIZE_BYTES
InBounds(r) == r.msg >= 0 /\ r.msg + r.N_bytes <= Capacity
Fits(r, n) == r.msg + r.N_bytes + n <= Capacity
\* n more bytes fit in the tailroom, the bytes of buffer[] after the valid
\* region: the valid region ends in buffer[] and the n bytes after it end in
\* buffer[], by the sum of the offsets and by what get_tailroom() returns.
FitsTailroom(r, n) ==
  /\ r.msg + r.N_bytes >= 0
  /\ Fits(r, n)
  /\ n <= get_tailroom(r)
Observable(r) ==
  [bytes |-> make_span(r), length |-> r.N_bytes, headroom |-> get_headroom(r)]
SizeConstructed == last.op \in {"byte_buffer_t(size)", "byte_buffer_t(size,val)"}
\* The step is a copy construction from b or an assignment of b.
CopyStep ==
  /\ last'.op \in {"byte_buffer_t(buf)", "operator="}
  /\ \E g \in Store : CopyConstruct(g) \/ Assign(g)
\* The step is append_bytes(x, Len(x)); last'.op is "append_bytes" then.
AppendStep(x) == AppendBytes(x)

\* C1: in every reachable state of a byte buffer the headroom offset is
\* >= 0 and headroom offset + N_bytes <= capacity.
C1_BoundsInvariant == InBounds(b)

\* C2: append_bytes(buf, size) with size beyond the tailroom (headroom offset
\* + N_bytes + size > capacity) fails and leaves N_bytes and every byte of
\* the backing store unchanged.
C2_OverlongAppendChangesNothing ==
  [][last'.op = "append_bytes"
     => \A x \in Input :
          (/\ InBounds(b)
           /\ ~Fits(b, Len(x))
           /\ Len(x) > get_tailroom(b)
           /\ AppendStep(x))
          => (b'.N_bytes = b.N_bytes /\ b'.buffer = b.buffer)]_vars

\* C3: a size constructor given a size above capacity - default margin
\* fails: it never produces a buffer whose N_bytes is that size.
C3_OversizeNeverConstructed ==
  (SizeConstructed /\ last.size > Capacity - Margin) => b.N_bytes /= last.size

\* C4: in every reachable state get_headroom() + N_bytes + get_tailroom()
\* equals the capacity, get_tailroom() being the uint32_t the code returns.
C4_RoomsAddUpToCapacity ==
  get_headroom(b) + b.N_bytes + get_tailroom(b) = Capacity

\* C5: a copy of (or an assignment from) any source that satisfies the
\* bounds invariant has the source's N_bytes, the source's valid bytes and
\* the default margin as its headroom.
C5_CopyKeepsContent ==
  [][(CopyStep /\ InBounds(b))
     => (/\ b'.N_bytes = b.N_bytes
         /\ make_span(b') = make_span(b)
         /\ get_headroom(b') = Margin)]_vars

\* C6: a buffer constructed with a size <= capacity - default margin has
\* N_bytes = size and headroom = default margin; the default constructor
\* gives N_bytes = 0 and the same headroom.
C6_ConstructedGeometry ==
  /\ last.op = "byte_buffer_t" => (b.N_bytes = 0 /\ get_headroom(b) = Margin)
  /\ (SizeConstructed /\ last.size <= Capacity - Margin)
       => (b.N_bytes = last.size /\ get_headroom(b) = Margin)

C6_Witness ==
  /\ last.op = "byte_buffer_t(size)"
  /\ last.size = Capacity - Margin
  /\ b.N_bytes = Capacity - Margin
  /\ b.N_bytes > 0

\* C7: from any state, clear() then append_bytes(x) gives the valid bytes,
\* the N_bytes and the headroom of a default-constructed buffer after
\* append_bytes(x), for every x that fits the fresh buffer's tailroom.
C7_ClearThenAppendIsFresh ==
  [][(last.op = "clear" /\ last'.op = "append_bytes")
     => \A x \in Input :
          (Len(x) <= Capacity - Margin /\ AppendStep(x))
          => \A g \in Store :
               \A fresh \in append_bytes(byte_buffer_t_default(g), x) :
                 Observable(b') = Observable(fresh)]_vars

C7_Witness ==
  /\ last.op = "append_bytes"
  /\ last.cleared
  /\ last.size = Capacity - Margin
  /\ b.N_bytes = last.size
  /\ \E x \in Input : Len(x) = last.size /\ make_span(b) = {x}

C9_ClearResets ==
  last.op = "clear"
  => (/\ get_headroom(b) = Margin
      /\ b.N_bytes = 0
      /\ b.md.pdcp_sn = 0
      /\ ~b.md.tp.timestamp_is_set
      /\ get_latency_us(b.md.tp, now) = {0})

C9_Witness == last.op = "clear" /\ now > get_timestamp(b.md.tp)

\* C10: get_latency_us() is exactly zero whenever the tracker is not
\* captured: on a new tracker, and after clear() whatever set_timestamp
\* calls came before; the query has a value in every state.
C10_UncapturedLatencyIsZero ==
  /\ get_latency_us(b.md.tp, now) /= {}
  /\ get_latency_us(b.md.tp, now) \subseteq Int
  /\ ~b.md.tp.timestamp_is_set => get_latency_us(b.md.tp, now) = {0}
  /\ last.op \in {"byte_buffer_t", "byte_buffer_t(size)", "tp.clear", "clear"}
       => get_latency_us(b.md.tp, now) = {0}

C10_Witness ==
  /\ last.op = "tp.clear"
  /\ get_timestamp(b.md.tp) \in TimePoint
  /\ get_timestamp(b.md.tp) /= 0
  /\ get_timestamp(b.md.tp) /= now

\* C11: once the tracker is captured by set_timestamp() or
\* set_timestamp(tp) (its time point is one the program stored), across
\* every step in which the clock advances or stands and that is no
\* set_timestamp and no clear (the tracker is as it was), no read of
\* get_latency_us() after the step is below a read before it: the
\* successive reads are non-decreasing as the clock advances.
C11_LatencyNonDecreasing ==
  [][(/\ b.md.tp.timestamp_is_set
      /\ b.md.tp.tp /= Indeterminate
      /\ b'.md.tp = b.md.tp
      /\ now' >= now)
     => \A before \in get_latency_us(b.md.tp, now) :
          \A after \in get_latency_us(b'.md.tp, now') : after >= before]_vars

\* C12: in every reachable state each make_span overload returns the view
\* that starts at msg and has length N_bytes, and leaves the buffer as it was.
C12_SpanIsMsgAndLength ==
  [][(last'.op = "make_span" /\ \E overload \in SpanOverload : MakeSpan(overload))
     => (/\ \A overload \in SpanOverload :
              make_span_of(overload, b) = [data |-> b.msg, size |-> b.N_bytes]
         /\ last'.ret = [data |-> b.msg, size |-> b.N_bytes]
         /\ b' = b)]_vars

C12_Witness ==
  /\ last.op = "make_span"
  /\ last.ret = [data |-> b.msg, size |-> b.N_bytes]
  /\ last.ret.data /= Margin
  /\ last.ret.size > 0
  /\ InBounds(b)

\* C13: append_bytes of n payload bytes on a fresh (default-constructed)
\* buffer, n within its tailroom, then an h-byte header prepended in place
\* (PrependHeader, h <= get_headroom()): N_bytes = n + h, get_headroom() =
\* default margin - h, get_tailroom() is what it was before the prepend, the
\* first h valid bytes are the tag and the rest the payload.
C13_AppendThenPrepend ==
  [][(/\ last.op = "append_bytes"
      /\ last.fresh
      /\ last.size <= Capacity - Margin
      /\ last'.op = "prepend")
     => \A tag \in Header :
          PrependHeader(tag)
          => (/\ b'.N_bytes = last.size + Len(tag)
              /\ get_headroom(b') = Margin - Len(tag)
              /\ get_tailroom(b') = get_tailroom(b)
              /\ \A payload \in make_span(b) :
                   /\ Len(payload) = last.size
                   /\ make_span(b') = {tag \o payload})]_vars

\* A header shorter than the headroom, in front of a payload.
C13_Witness ==
  /\ last.op = "prepend"
  /\ last.size > 0
  /\ last.size < Margin
  /\ last.appended = Capacity - Margin
  /\ last.appended > 0
  /\ b.N_bytes = last.appended + last.size
  /\ get_headroom(b) = Margin - last.size
  /\ get_headroom(b) > 0

BitCapacity == SRSLTE_MAX_BUFFER_SIZE_BITS
BitInBounds(r) == r.msg >= 0 /\ r.msg + r.N_bits <= BitCapacity

\* C14: in every state of a bit buffer reachable by default construction,
\* copy construction, assignment and clear(), with the caller's in-place
\* headers in between, the headroom offset is >= 0 and headroom offset +
\* N_bits <= SRSLTE_MAX_BUFFER_SIZE_BITS.
C14_BitBoundsInvariant == BitInBounds(bits)

\* C15: a copy of (or an assignment from) any source within bounds, also one
\* that consumed headroom and holds more than capacity - default margin
\* bytes, is within bounds and its memcpy stays inside the destination's
\* buffer[].
C15_CopyStaysInBounds ==
  [][(CopyStep /\ InBounds(b))
     => (/\ InBounds(b')
         /\ SRSLTE_BUFFER_HEADER_OFFSET + b.N_bytes <= Capacity)]_vars

\* C16: a copy of (or an assignment from) a buffer has the source's pdcp_sn
\* and a latency tracker with the source's flag and timestamp, so
\* get_timestamp() on the copy is the source's.
C16_CopyKeepsMetadata ==
  [][(CopyStep /\ InBounds(b))
     => (/\ b'.md.pdcp_sn = b.md.pdcp_sn
         /\ b'.md.tp.timestamp_is_set = b.md.tp.timestamp_is_set
         /\ get_timestamp(b'.md.tp) = get_timestamp(b.md.tp))]_vars

\* C17: assigning a byte buffer, or a bit buffer, to itself leaves its
\* headroom offset, length, backing bytes and metadata as they were,
\* whatever the headroom offset.
C17_SelfAssignChangesNothing ==
  [][/\ (last'.op = "operator=(self)" /\ SelfAssign) => b' = b
     /\ (last'.op = "bit_buffer_t::operator=(self)" /\ BitSelfAssign)
          => bits' = bits]_vars

C17_Witness ==
  /\ last.op = "operator=(self)"
  /\ get_headroom(b) /= Margin
  /\ b.N_bytes > 0
  /\ bit_get_headroom(bits) /= Margin
  /\ bits.N_bits > 0

\* C18: clear() leaves every byte of the backing store as it was.
C18_ClearKeepsStore ==
  [][(last'.op = "clear" /\ Clear) => b'.buffer = b.buffer]_vars

C18_Witness ==
  /\ last.op = "clear"
  /\ \E i \in Index : b.buffer[i] /= 0
  /\ b.N_bytes = 0

====
